---- MODULE Spec2Model ----
(***************************************************************************)
(* Model of firewall-rpc-helper.py (class FirewallRPC): static port        *)
(* configuration of rpcbind services in a sysconfig file, the port         *)
(* suggestion chain, the read-back of static ports, the firewalld service   *)
(* export and the port listing.                                            *)
(*                                                                         *)
(* Text is modelled as a sequence of atoms.  An atom is a TLA+ string that *)
(* stands for an indivisible piece of text: one separator character        *)
(* ("=", "\"", "#", " ", "\n", "+", "-", "/"), one decimal digit, or one   *)
(* word that contains none of these (a variable name, "-p", "--port").     *)
(* Python's str methods are written out over such sequences.               *)
(***************************************************************************)
EXTENDS Integers, Sequences, FiniteSets, TLC

(***************************************************************************)
(* Python values and str methods                                           *)
(***************************************************************************)

\* Python's None where the code returns "an int or None" (scanPort,
\* validatePortString, dict.get); no port of the program is negative.
None == -1

Digits == {"0", "1", "2", "3", "4", "5", "6", "7", "8", "9"}

DigitVal ==
  [d \in Digits |->
     CASE d = "0" -> 0 [] d = "1" -> 1 [] d = "2" -> 2 [] d = "3" -> 3
       [] d = "4" -> 4 [] d = "5" -> 5 [] d = "6" -> 6 [] d = "7" -> 7
       [] d = "8" -> 8 [] d = "9" -> 9]

DigitChr ==
  [n \in 0..9 |-> CHOOSE d \in Digits : DigitVal[d] = n]

Whitespace == {" ", "\n"}

RECURSIVE lstrip(_, _)
lstrip(s, chars) ==
  IF s # <<>> /\ Head(s) \in chars THEN lstrip(Tail(s), chars) ELSE s

RECURSIVE rstrip(_, _)
rstrip(s, chars) ==
  IF s # <<>> /\ s[Len(s)] \in chars
    THEN rstrip(SubSeq(s, 1, Len(s) - 1), chars) ELSE s

\* str.strip() and str.strip(chars)
strip(s, chars) == rstrip(lstrip(s, chars), chars)

\* str.split(sep): one part more than there are separators
RECURSIVE split(_, _)
split(s, sep) ==
  IF \A i \in 1..Len(s) : s[i] # sep THEN <<s>>
  ELSE LET i == CHOOSE j \in 1..Len(s) :
                  s[j] = sep /\ \A k \in 1..(j - 1) : s[k] # sep
       IN <<SubSeq(s, 1, i - 1)>> \o split(SubSeq(s, i + 1, Len(s)), sep)

\* str.split(): the maximal runs of non-whitespace
RECURSIVE splitws(_)
splitws(s) ==
  LET t == lstrip(s, Whitespace) IN
  IF t = <<>> THEN <<>>
  ELSE LET n == IF \E j \in 1..Len(t) : t[j] \in Whitespace
                  THEN (CHOOSE j \in 1..Len(t) :
                          t[j] \in Whitespace
                          /\ \A k \in 1..(j - 1) : t[k] \notin Whitespace) - 1
                  ELSE Len(t)
       IN <<SubSeq(t, 1, n)>> \o splitws(SubSeq(t, n + 1, Len(t)))

\* str.isdigit()
isdigit(s) == s # <<>> /\ \A i \in 1..Len(s) : s[i] \in Digits

\* the value of a string of decimal digits
RECURSIVE digitsValue(_)
digitsValue(s) ==
  IF s = <<>> THEN 0
  ELSE 10 * digitsValue(SubSeq(s, 1, Len(s) - 1)) + DigitVal[s[Len(s)]]

\* str(n) as '{}'.format(n) writes it, n >= 0
RECURSIVE str(_)
str(n) ==
  IF n < 10 THEN <<DigitChr[n]>> ELSE str(n \div 10) \o <<DigitChr[n % 10]>>

\* int(s) of a str: surrounding whitespace is dropped, one sign is allowed,
\* the rest must be decimal digits; anything else raises ValueError.
int(s) ==
  LET t == strip(s, Whitespace)
      signed == t # <<>> /\ Head(t) \in {"+", "-"}
      body == IF signed THEN Tail(t) ELSE t
  IN IF ~isdigit(body) THEN [ok |-> FALSE, val |-> 0]
     ELSE [ok |-> TRUE,
           val |-> IF signed /\ Head(t) = "-" THEN 0 - digitsValue(body)
                   ELSE digitsValue(body)]

\* ''.join(list of strings)
RECURSIVE join(_)
join(ss) == IF ss = <<>> THEN <<>> ELSE Head(ss) \o join(Tail(ss))

\* open(file, 'r') reads in universal newlines mode: "\r\n" and "\r" reach
\* the program as "\n"
RECURSIVE universalNewlines(_)
universalNewlines(text) ==
  IF text = <<>> THEN <<>>
  ELSE IF Head(text) = "\r"
    THEN <<"\n">> \o universalNewlines(
                       IF Len(text) >= 2 /\ text[2] = "\n"
                         THEN SubSeq(text, 3, Len(text)) ELSE Tail(text))
  ELSE <<Head(text)>> \o universalNewlines(Tail(text))

\* file.readlines(): every line keeps its "\n"; the last one may lack it
RECURSIVE readlines(_)
readlines(content) ==
  IF content = <<>> THEN <<>>
  ELSE LET n == IF \E j \in 1..Len(content) : content[j] = "\n"
                  THEN CHOOSE j \in 1..Len(content) :
                         content[j] = "\n"
                         /\ \A k \in 1..(j - 1) : content[k] # "\n"
                  ELSE Len(content)
       IN <<SubSeq(content, 1, n)>>
            \o readlines(SubSeq(content, n + 1, Len(content)))

(***************************************************************************)
(* The static tables of class FirewallRPC                                  *)
(***************************************************************************)

\* a str that consists of one word
W(a) == <<a>>

cfg_syntax_keys ==
  {W("YPBIND_OPTIONS"), W("YPPASSWDD_ARGS"), W("YPSERV_ARGS"), W("YPXFRD_ARGS")}

\* the text of a template before its "{port}" field
cfg_syntax ==
  [k \in cfg_syntax_keys |->
     IF k = W("YPPASSWDD_ARGS") THEN <<"--port", " ">> ELSE <<"-p", " ">>]

cfg_service_names ==
  [k \in {W("LOCKD_TCPPORT"), W("LOCKD_UDPPORT"), W("MOUNTD_PORT"),
          W("RQUOTAD_PORT"), W("STATD_PORT"), W("YPBIND_OPTIONS"),
          W("YPPASSWDD_ARGS"), W("YPSERV_ARGS"), W("YPXFRD_ARGS")} |->
     CASE k = W("LOCKD_TCPPORT") -> W("nlockmgr")
       [] k = W("LOCKD_UDPPORT") -> W("nlockmgr")
       [] k = W("MOUNTD_PORT") -> W("mountd")
       [] k = W("RQUOTAD_PORT") -> W("rquotad")
       [] k = W("STATD_PORT") -> W("status")
       [] k = W("YPBIND_OPTIONS") -> W("ypbind")
       [] k = W("YPPASSWDD_ARGS") -> W("yppasswd")
       [] k = W("YPSERV_ARGS") -> W("ypserv")
       [] k = W("YPXFRD_ARGS") -> W("fypxfrd")]

\* cfg_service_names.values()
RpcServiceNames == {cfg_service_names[k] : k \in DOMAIN cfg_service_names}

\* '"TCP" in config_var' and '"UDP" in config_var' for the words of the model
ContainsTCP(config_var) == config_var = W("LOCKD_TCPPORT")

ContainsUDP(config_var) == config_var = W("LOCKD_UDPPORT")

Range(f) == {f[i] : i \in DOMAIN f}

Pattern(label, sysconfig_file, config_vars, static_ports) ==
  [m_label |-> label,
   m_sysconfig_file |-> <<"/etc/sysconfig/", sysconfig_file>>,
   m_config_vars |-> config_vars,
   m_rpcbind_services |-> {cfg_service_names[c] : c \in Range(config_vars)},
   m_static_ports |-> static_ports]

NfsStaticPorts ==
  << <<"2", "0", "4", "9", "/", "tcp">>, <<"2", "0", "4", "9", "/", "udp">> >>

m_patterns ==
  [l \in {"nfs-server", "nfs-client", "yp-server", "yp-client"} |->
     CASE l = "nfs-server" ->
            Pattern(l, "nfs",
                    <<W("MOUNTD_PORT"), W("STATD_PORT"), W("LOCKD_TCPPORT"),
                      W("LOCKD_UDPPORT"), W("RQUOTAD_PORT")>>,
                    NfsStaticPorts)
       [] l = "nfs-client" ->
            Pattern(l, "nfs",
                    <<W("STATD_PORT"), W("LOCKD_TCPPORT"), W("LOCKD_UDPPORT")>>,
                    NfsStaticPorts)
       [] l = "yp-server" ->
            Pattern(l, "ypserv",
                    <<W("YPXFRD_ARGS"), W("YPPASSWDD_ARGS"), W("YPSERV_ARGS")>>,
                    <<>>)
       [] l = "yp-client" ->
            Pattern(l, "ypbind", <<W("YPBIND_OPTIONS")>>, <<>>)]

getSupportedPatterns == DOMAIN m_patterns

getPortSyntax(config_var) ==
  IF config_var \in DOMAIN cfg_syntax THEN cfg_syntax[config_var] ELSE <<>>

PortMin == 1

PortMax == 65535

RandMin == 49152

RandMax == 65535

(***************************************************************************)
(* Pure parts of the program                                               *)
(***************************************************************************)

\* validatePortString without its range test
validatePortAny(port) == port

\* the range test of validatePortString; also what it does with an int
validatePort(port) ==
  IF port \in PortMin..PortMax THEN port ELSE None

validatePortString(port) ==
  LET r == int(port) IN
  IF ~r.ok THEN None ELSE validatePort(r.val)

\* scanPort returning the last number instead of the first
RECURSIVE scanPartsLast(_)
scanPartsLast(parts) ==
  IF parts = <<>> THEN None
  ELSE IF isdigit(parts[Len(parts)]) THEN digitsValue(parts[Len(parts)])
  ELSE scanPartsLast(SubSeq(parts, 1, Len(parts) - 1))

RECURSIVE scanParts(_)
scanParts(parts) ==
  IF parts = <<>> THEN None
  ELSE IF isdigit(Head(parts)) THEN digitsValue(Head(parts))
  ELSE scanParts(Tail(parts))

\* scanPort without value.strip('"')
scanPortQuoted(value) == scanParts(splitws(value))

scanPort(value) == scanParts(splitws(strip(value, {"\""})))

\* what an item_handler returns for "keep the line"
NoneLine == <<"None">>

\* lines 669-683 of processCfgLine: is the line handed to the item_handler,
\* and with which key and value
cfgItem(line) ==
  LET stripped == strip(line, Whitespace)
      parts == split(stripped, "=")
  IN IF stripped = <<>> THEN [item |-> FALSE, key |-> <<>>, val |-> <<>>]
     ELSE IF Head(stripped) = "#"
       THEN [item |-> FALSE, key |-> <<>>, val |-> <<>>]
     ELSE IF Len(parts) # 2
       THEN [item |-> FALSE, key |-> <<>>, val |-> <<>>]
     ELSE [item |-> TRUE, key |-> parts[1], val |-> parts[2]]

\* processCfgLine, given as new_line what item_handler returns for the key
\* and the value of the line
processCfgLine(line, new_line) ==
  IF ~cfgItem(line).item THEN line
  ELSE IF new_line # NoneLine THEN new_line ELSE line

\* processCfgItemForChange writing the port as the value of its option
formatCfgItemAssigned(key, port) ==
  key \o <<"=", "\"">> \o getPortSyntax(key) \o <<"=">> \o str(port)
    \o <<"\"", "\n">>

\* the line processCfgItemForChange returns for an accepted port
formatCfgItem(key, port) ==
  key \o <<"=", "\"">> \o getPortSyntax(key) \o str(port) \o <<"\"", "\n">>

\* processCfgItemForParsing without the test for the keys of the pattern
processCfgItemForParsingAnyKey(pattern, static_ports, key, val) ==
  LET port == scanPort(val) IN
  IF port # None /\ port # 0
    THEN [k \in DOMAIN static_ports \cup {key} |->
            IF k = key THEN port ELSE static_ports[k]]
    ELSE static_ports

\* processCfgItemForParsing as a function of the static ports found so far
processCfgItemForParsing(pattern, static_ports, key, val) ==
  IF key \notin Range(pattern.m_config_vars) THEN static_ports
  ELSE LET port == scanPort(val) IN
       IF port # None /\ port # 0
         THEN [k \in DOMAIN static_ports \cup {key} |->
                 IF k = key THEN port ELSE static_ports[k]]
         ELSE static_ports

RECURSIVE parseCfgLines(_, _, _)
parseCfgLines(pattern, static_ports, lines) ==
  IF lines = <<>> THEN static_ports
  ELSE LET it == cfgItem(Head(lines)) IN
       parseCfgLines(pattern,
                     IF it.item
                       THEN processCfgItemForParsing(pattern, static_ports,
                                                     it.key, it.val)
                       ELSE static_ports,
                     Tail(lines))

\* the dict of a missing or unreadable file is empty
EmptyDict == [k \in {} |-> 0]

getStaticPortConfig(pattern, file) ==
  IF ~file.exists THEN EmptyDict
  ELSE parseCfgLines(pattern, EmptyDict,
                     readlines(universalNewlines(file.content)))

(***************************************************************************)
(* rpcinfo -p and the snapshot built from it                               *)
(***************************************************************************)

\* one record of the rpcinfo table (program and version are not used)
Row(service, proto, port) ==
  [service |-> W(service), proto |-> W(proto), port |-> port]

\* service = ports.setdefault(service, dict()); proto = service.setdefault(
\* proto, set()); proto.add(int(port)).  A dict is the sequence of its items
\* in insertion order and a set the sequence of its elements in iteration
\* order, which is fixed for one snapshot.
addRow(ports, row) ==
  LET service == IF row.service \in DOMAIN ports
                   THEN ports[row.service] ELSE <<>>
      known == \E i \in 1..Len(service) : service[i].proto = row.proto
      updated ==
        IF known
          THEN [i \in 1..Len(service) |->
                  IF service[i].proto = row.proto
                       /\ row.port \notin Range(service[i].ports)
                    THEN [service[i] EXCEPT !.ports = Append(@, row.port)]
                    ELSE service[i]]
          ELSE Append(service, [proto |-> row.proto, ports |-> <<row.port>>])
  IN [s \in DOMAIN ports \cup {row.service} |->
        IF s = row.service THEN updated ELSE ports[s]]

RECURSIVE addRows(_, _)
addRows(ports, rows) ==
  IF rows = <<>> THEN ports ELSE addRows(addRow(ports, Head(rows)), Tail(rows))

\* output is None when rpcinfo cannot contact the portmapper
getRPCServices(output) ==
  IF ~output.reachable THEN EmptyDict ELSE addRows(EmptyDict, output.rows)

(***************************************************************************)
(* Bounds and the inputs the runs are made of                              *)
(***************************************************************************)

\* lines of the sysconfig file
MaxLines == 2

\* values random.randint is seen to return, counted from RandMin
NumDraws == 2

\* invocations of the program in a row
MaxRuns == 2

RandomDraws == {RandMin + i : i \in 0..(NumDraws - 1)} \cup {RandMax}

Quoted(key, value) == <<key, "=", "\"">> \o value \o <<"\"", "\n">>

\* lines of /etc/sysconfig/nfs, in the order they are put into a file
NfsLines ==
  << <<"\n">>,
     <<"#", " ", "STATD_PORT", "=", "7", "\n">>,
     <<"#", " ", "nfs", "\r", "\n">>,
     Quoted("MOUNTD_PORT", <<>>),
     Quoted("STATD_PORT", <<"7", "0", "0", "0", "0">>),
     <<" ">> \o Quoted("LOCKD_UDPPORT", <<"0">>),
     <<"LOCKD_TCPPORT", "=", "7", "1", "3">> >>

\* lines of /etc/sysconfig/ypserv and /etc/sysconfig/ypbind
YpLines ==
  << <<"\n">>,
     Quoted("YPSERV_ARGS", <<"-p", " ", "5", " ", "9">>),
     Quoted("YPSERV_ARGS", <<"--opt", "=", "x", " ", "-p", " ", "5">>),
     Quoted("YPBIND_OPTIONS", <<"-p", " ", "7", "1", "3">>),
     Quoted("YPPASSWDD_ARGS", <<>>),
     Quoted("YPXFRD_ARGS", <<"-d">>) >>

\* a sysconfig file in which every variable of the file has a static port
FullNfs ==
  Quoted("MOUNTD_PORT", <<"2", "0", "0", "4", "8">>)
    \o Quoted("STATD_PORT", <<"8", "1", "5">>)
    \o Quoted("LOCKD_TCPPORT", <<"4", "0", "4", "5">>)
    \o Quoted("LOCKD_UDPPORT", <<"4", "0", "4", "5">>)
    \o Quoted("RQUOTAD_PORT", <<"8", "7", "5">>)

FullYp ==
  Quoted("YPXFRD_ARGS", <<"-p", " ", "8", "3", "5">>)
    \o Quoted("YPPASSWDD_ARGS", <<"--port", " ", "8", "3", "6">>)
    \o Quoted("YPSERV_ARGS", <<"-p", " ", "8", "3", "4">>)

\* the files of at most n lines taken from position from of the catalogue
\* onwards, a line as often as the length allows
RECURSIVE Contents(_, _, _)
Contents(catalogue, from, n) ==
  IF n = 0 THEN {<<>>}
  ELSE {<<>>} \cup UNION {{catalogue[i] \o c : c \in Contents(catalogue, i, n - 1)} :
                            i \in from..Len(catalogue)}

\* the states of the sysconfig file of a pattern before the first run
Files(label) ==
  LET nfs == label \in {"nfs-server", "nfs-client"} IN
  {[exists |-> FALSE, content |-> <<>>]}
    \cup {[exists |-> TRUE, content |-> c] :
            c \in Contents(IF nfs THEN NfsLines ELSE YpLines, 1, MaxLines)
                    \cup {IF nfs THEN FullNfs ELSE FullYp}}

RpcInfoOutputs ==
  { [reachable |-> FALSE, rows |-> <<>>],
    [reachable |-> TRUE,
     rows |-> <<Row("mountd", "tcp", 20048), Row("rquotad", "udp", 875),
                Row("nlockmgr", "tcp", 49153), Row("nlockmgr", "udp", 49152),
                Row("nfs", "tcp", 2049), Row("nfs_acl", "tcp", 2049),
                Row("nfs", "udp", 2049),
                Row("ypbind", "udp", 714), Row("ypbind", "tcp", 713),
                Row("ypserv", "tcp", 49152), Row("ypserv", "tcp", 65535)>>] }

ValidPortConfigs ==
  { <<>>,
    <<"mountd", "=", "4", "7", "1", "1", " ", "status", "=", "8", "1", "5">> }

BadPortConfigs ==
  { <<"bogus", "=", "1">>,
    <<"mountd", "=", "4", "7", "1", "1", " ", "status", "=", "x">>,
    <<"mountd", "=", "0">>,
    <<"mountd", "=", "6", "5", "5", "3", "6">>,
    <<"mountd", "=", "1", "=", "2">>,
    <<"mountd">> }

PortConfigs == ValidPortConfigs \cup BadPortConfigs

\* what the operator types at a prompt; the empty str is end of input
Replies ==
  { <<>>, <<"\n">>, <<"7", "1", "3", "\n">>, <<"0", "\n">>, <<"x", "\n">> }

Commands ==
  {"static_config", "create_firewalld_service", "print_services",
   "print_pattern", "list_patterns", "none"}

\* arguments of -s
ServiceLists ==
  { <<W("mountd"), W("rquotad")>>, <<W("nfs"), W("nfs_acl"), W("nlockmgr")>> }

\* the argument of --create-firewalld-service; NoArgValue stands for none
NoArgValue == <<"NoArgValue">>

ServiceNames == {NoArgValue, W("ssh")}

\* the service definitions firewalld has before the first run
InitialFirewall == [n \in {W("ssh")} |-> {<<"2", "2", "/", "tcp">>}]

(***************************************************************************)
(* Port suggestion                                                         *)
(***************************************************************************)

\* Python's == between an int and a str is False
IntEqStr(n, s) == FALSE

\* 'port in prots' of isPortUsed: prots is the dict of one service, whose
\* keys are the protocol names
portInProts(port, prots) ==
  \E i \in 1..Len(prots) : IntEqStr(port, prots[i].proto)

isPortUsed(used_ports, rpc_services, port) ==
  \/ port \in used_ports
  \/ \E service \in DOMAIN rpc_services :
       portInProts(port, rpc_services[service])

HasProto(current, proto) == \E i \in 1..Len(current) : current[i].proto = proto

ProtoPorts(current, proto) ==
  current[CHOOSE i \in 1..Len(current) : current[i].proto = proto].ports

\* the set getPortSuggestion picks from: current["tcp"], current["udp"] or
\* list(current.values())[0]; no ports when the service is not registered
currentPorts(rpc_services, config_var) ==
  LET rpc_service == cfg_service_names[config_var] IN
  IF rpc_service \notin DOMAIN rpc_services THEN <<>>
  ELSE LET current == rpc_services[rpc_service] IN
       IF current = <<>> THEN <<>>
       ELSE IF ContainsTCP(config_var) /\ HasProto(current, W("tcp"))
         THEN ProtoPorts(current, W("tcp"))
       ELSE IF ContainsUDP(config_var) /\ HasProto(current, W("udp"))
         THEN ProtoPorts(current, W("udp"))
       ELSE current[1].ports

\* m_port_config.get(rpc_service, None)
configuredPort(port_config, config_var) ==
  LET rpc_service == cfg_service_names[config_var] IN
  IF rpc_service \in DOMAIN port_config THEN port_config[rpc_service] ELSE None

\* getPortSuggestion with the old port looked at before the override
getPortSuggestionOldFirst(port_config, rpc_services, used_ports, config_var, old_port) ==
  LET configured == configuredPort(port_config, config_var)
      proto == currentPorts(rpc_services, config_var)
  IN IF old_port # None /\ old_port # 0 THEN {old_port}
     ELSE IF configured # None /\ configured # 0 THEN {configured}
     ELSE IF proto # <<>> THEN {proto[1]}
     ELSE {randport \in RandomDraws :
             ~isPortUsed(used_ports, rpc_services, randport)}

\* The values getPortSuggestion can return: one value unless the port is
\* drawn at random, and then every value the retry loop can end with.
getPortSuggestion(port_config, rpc_services, used_ports, config_var, old_port) ==
  LET configured == configuredPort(port_config, config_var)
      proto == currentPorts(rpc_services, config_var)
  IN IF configured # None /\ configured # 0 THEN {configured}
     ELSE IF old_port # None /\ old_port # 0 THEN {old_port}
     ELSE IF proto # <<>> THEN {proto[1]}
     ELSE {randport \in RandomDraws :
             ~isPortUsed(used_ports, rpc_services, randport)}

(***************************************************************************)
(* --port-config                                                           *)
(***************************************************************************)

\* parsePortConfigItem: the dict with the item stored, or the exit
parsePortConfigItem(port_config, config) ==
  LET parts == split(config, "=") IN
  IF Len(parts) # 2 THEN [ok |-> FALSE, port_config |-> port_config]
  ELSE LET rpcservice == parts[1]
           port == validatePortString(parts[2])
       IN IF rpcservice \notin RpcServiceNames
            THEN [ok |-> FALSE, port_config |-> port_config]
          ELSE IF port = None \/ port = 0
            THEN [ok |-> FALSE, port_config |-> port_config]
          ELSE [ok |-> TRUE,
                port_config |->
                  [s \in DOMAIN port_config \cup {rpcservice} |->
                     IF s = rpcservice THEN port ELSE port_config[s]]]

RECURSIVE parsePortConfigItems(_, _)
parsePortConfigItems(port_config, configs) ==
  IF configs = <<>> THEN [ok |-> TRUE, port_config |-> port_config]
  ELSE LET r == parsePortConfigItem(port_config, Head(configs)) IN
       IF ~r.ok THEN r ELSE parsePortConfigItems(r.port_config, Tail(configs))

\* an absent and an empty --port-config are both "not port_config"
parsePortConfig(port_config) ==
  IF port_config = <<>> THEN [ok |-> TRUE, port_config |-> EmptyDict]
  ELSE parsePortConfigItems(EmptyDict, splitws(port_config))

(***************************************************************************)
(* --print-services                                                        *)
(***************************************************************************)

\* the (proto, port) tuples of the requested services, duplicates removed
serviceSpecs(rpc_services, services) ==
  UNION { UNION { {<<rpc_services[s][i].proto, port>> :
                     port \in Range(rpc_services[s][i].ports)} :
                  i \in 1..Len(rpc_services[s]) } :
          s \in DOMAIN rpc_services \cap services }

\* list(set(specs)): the tuples in any order
Orderings(S) ==
  {q \in [1..Cardinality(S) -> S] : \A e \in S : \E i \in DOMAIN q : q[i] = e}

\* printServices without the sort
unsortedSpecs(specs) == specs

\* sorted(specs, key = lambda s: s[1]): stable insertion by port
RECURSIVE sortedByPort(_)
sortedByPort(specs) ==
  IF specs = <<>> THEN <<>>
  ELSE LET rest == sortedByPort(SubSeq(specs, 1, Len(specs) - 1))
           last == specs[Len(specs)]
           before == SelectSeq(rest, LAMBDA e : e[2] <= last[2])
           after == SelectSeq(rest, LAMBDA e : e[2] > last[2])
       IN before \o <<last>> \o after

\* '{}/{}'.format(port, proto)
portSpec(port, proto) == str(port) \o <<"/">> \o proto

\* the lists of tokens printServices can print
printServices(rpc_services, services) ==
  { [i \in 1..Len(q) |-> portSpec(sortedByPort(q)[i][2], sortedByPort(q)[i][1])] :
      q \in Orderings(serviceSpecs(rpc_services, services)) }

(***************************************************************************)
(* State                                                                   *)
(***************************************************************************)

VARIABLES
  pc,              \* position of the running program, "done" or "exit"
  status,          \* exit status of the process, 0 while it runs
  m_args,          \* the parsed command line
  m_rpc_services,  \* the snapshot of run()
  m_port_config,   \* rpc service name -> port of --port-config
  m_used_ports,    \* ports given out during this configuration
  m_static_ports,  \* configuration key -> port found by getStaticPortConfig
  input,           \* cfg_fd.readlines() of configureStatic
  lines,           \* the list 'lines' of configureStatic
  query,           \* key and suggested port of the running queryPort
  suggested,       \* the last call of getPortSuggestion and its result
  disk,            \* the sysconfig file of the pattern
  disk0,           \* the sysconfig file as it was when the run started
  rpcinfo,         \* what rpcinfo -p prints
  fwServices,      \* permanent firewalld services: name -> set of port specs
  calls,           \* the firewall-cmd calls of this run and their results
  stdout,          \* what printServices and listPattern printed
  stderr,          \* the configuration items reported as missing
  runs,            \* the commands of the earlier runs
  chosen           \* key and port of every call of processCfgItemForChange
                   \* that returned a line, in the last static configuration

vars ==
  <<pc, status, m_args, m_rpc_services, m_port_config, m_used_ports,
    m_static_ports, input, lines, query, suggested, disk, disk0, rpcinfo,
    fwServices, calls, stdout, stderr, runs, chosen>>

m_pattern == m_patterns[m_args.pattern]

NoQuery == [key |-> <<>>, port |-> None]

NoSuggestion ==
  [key |-> <<>>, old_port |-> None, port |-> None, used_ports |-> {}]

\* FirewallRPC() is constructed and the process is about to call run().
\* The options of the command line are those of every run.
Init ==
  /\ pc = "run"
  /\ status = 0
  /\ \E pattern \in getSupportedPatterns, port_config \in PortConfigs,
        non_interactive \in BOOLEAN :
       /\ m_args = [command |-> "none", pattern |-> pattern,
                    port_config |-> port_config,
                    non_interactive |-> non_interactive,
                    services |-> <<>>, name |-> NoArgValue]
       /\ disk \in Files(pattern)
  /\ disk0 = disk
  /\ rpcinfo \in RpcInfoOutputs
  /\ m_rpc_services = EmptyDict
  /\ m_port_config = EmptyDict
  /\ m_used_ports = {}
  /\ m_static_ports = EmptyDict
  /\ input = <<>>
  /\ lines = <<>>
  /\ query = NoQuery
  /\ suggested = NoSuggestion
  /\ fwServices = InitialFirewall
  /\ calls = <<>>
  /\ stdout = <<>>
  /\ stderr = <<>>
  /\ runs = <<>>
  /\ chosen = <<>>

\* sys.exit(code), or an exception that ends the process
Exit(code) ==
  /\ pc' = "exit"
  /\ status' = code

(***************************************************************************)
(* run()                                                                   *)
(***************************************************************************)

\* parse_args, getRPCServices, parsePortConfig and the choice of the command
run ==
  /\ pc = "run"
  /\ \E command \in Commands, services \in ServiceLists \cup {<<>>},
        name \in ServiceNames :
       /\ (command = "print_services") <=> (services # <<>>)
       /\ command # "create_firewalld_service" => name = NoArgValue
       /\ m_args' = [m_args EXCEPT !.command = command,
                                   !.services = services, !.name = name]
       /\ LET r == parsePortConfig(m_args.port_config) IN
          /\ m_port_config' = r.port_config
          /\ IF ~r.ok THEN Exit(1)
             ELSE IF command = "none" THEN Exit(2)
             ELSE pc' = command /\ status' = 0
  /\ m_rpc_services' = getRPCServices(rpcinfo)
  /\ UNCHANGED <<m_used_ports, m_static_ports, input, lines, query, suggested,
                 disk, disk0, rpcinfo, fwServices, calls, stdout, stderr, runs,
                 chosen>>

(***************************************************************************)
(* --static-config                                                         *)
(***************************************************************************)

\* configureStatic up to the first line: open() and readlines()
configureStatic ==
  /\ pc = "static_config"
  /\ IF ~disk.exists
       THEN Exit(1) /\ UNCHANGED input
       ELSE /\ pc' = "cfg_line"
            /\ input' = readlines(universalNewlines(disk.content))
            /\ UNCHANGED status
  /\ chosen' = <<>>
  /\ UNCHANGED <<m_args, m_rpc_services, m_port_config, m_used_ports,
                 m_static_ports, lines, query, suggested, disk, disk0, rpcinfo,
                 fwServices, calls, stdout, stderr, runs>>

\* the line the loop of configureStatic is at
curLine == input[Len(lines) + 1]

\* the end of processCfgItemForChange: the port is marked used and the
\* replacement line is appended to 'lines'
acceptPort(port) ==
  /\ m_used_ports' = m_used_ports \cup {port}
  /\ lines' = Append(lines,
                     processCfgLine(curLine,
                                    formatCfgItem(cfgItem(curLine).key, port)))
  /\ chosen' = Append(chosen, [key |-> cfgItem(curLine).key, port |-> port])

\* one pass of the loop of configureStatic: processCfgLine with
\* processCfgItemForChange, up to the prompt when the run is interactive
processCfgItemForChange ==
  /\ pc = "cfg_line"
  /\ Len(lines) < Len(input)
  /\ LET it == cfgItem(curLine) IN
     IF ~it.item \/ it.key \notin Range(m_pattern.m_config_vars)
       THEN /\ lines' = Append(lines, processCfgLine(curLine, NoneLine))
            /\ UNCHANGED <<pc, m_used_ports, query, suggested, chosen>>
       ELSE LET old_port == scanPort(it.val) IN
            \E port \in getPortSuggestion(m_port_config, m_rpc_services,
                                          m_used_ports, it.key, old_port) :
              /\ suggested' = [key |-> it.key, old_port |-> old_port,
                               port |-> port, used_ports |-> m_used_ports]
              /\ IF m_args.non_interactive
                   THEN acceptPort(port) /\ UNCHANGED <<pc, query>>
                   ELSE /\ pc' = "queryPort"
                        /\ query' = [key |-> it.key, port |-> port]
                        /\ UNCHANGED <<m_used_ports, lines, chosen>>
  /\ UNCHANGED <<status, m_args, m_rpc_services, m_port_config, m_static_ports,
                 input, disk, disk0, rpcinfo, fwServices, calls, stdout, stderr, runs>>

\* one pass of the loop of queryPort: a reply is read and either ends the
\* loop, is asked for again, or ends the process at end of input (EOFError is
\* an Exception, so the handler that re-raises it is the one that runs)
queryPort ==
  /\ pc = "queryPort"
  /\ \E reply \in Replies :
       IF reply = <<>>
         THEN Exit(1) /\ UNCHANGED <<m_used_ports, lines, query, chosen>>
       ELSE IF strip(reply, Whitespace) = <<>>
         THEN IF validatePort(query.port) \notin {None, 0}
                THEN /\ acceptPort(query.port)
                     /\ pc' = "cfg_line"
                     /\ query' = NoQuery
                     /\ UNCHANGED status
                ELSE UNCHANGED <<pc, status, m_used_ports, lines, query, chosen>>
       ELSE LET port == validatePortString(reply) IN
            IF port \notin {None, 0}
              THEN /\ acceptPort(port)
                   /\ pc' = "cfg_line"
                   /\ query' = NoQuery
                   /\ UNCHANGED status
              ELSE UNCHANGED <<pc, status, m_used_ports, lines, query, chosen>>
  /\ UNCHANGED <<m_args, m_rpc_services, m_port_config, m_static_ports, input,
                 suggested, disk, disk0, rpcinfo, fwServices, calls, stdout, stderr,
                 runs>>

\* configureStatic opening the file for writing while lines are still to be
\* processed
writeCfgEarly ==
  /\ pc = "cfg_line"
  /\ disk' = [exists |-> TRUE, content |-> join(lines)]
  /\ pc' = "done"
  /\ UNCHANGED <<status, m_args, m_rpc_services, m_port_config, m_used_ports,
                 m_static_ports, input, lines, query, suggested, disk0, rpcinfo,
                 fwServices, calls, stdout, stderr, runs, chosen>>

\* the end of configureStatic: the file is opened for writing and written
writeCfg ==
  /\ pc = "cfg_line"
  /\ Len(lines) = Len(input)
  /\ disk' = [exists |-> TRUE, content |-> join(lines)]
  /\ pc' = "done"
  /\ UNCHANGED <<status, m_args, m_rpc_services, m_port_config, m_used_ports,
                 m_static_ports, input, lines, query, suggested, disk0, rpcinfo,
                 fwServices, calls, stdout, stderr, runs, chosen>>

(***************************************************************************)
(* --create-firewalld-service                                              *)
(***************************************************************************)

\* the name of the service to create
serviceName ==
  IF m_args.name = NoArgValue THEN W(m_pattern.m_label) ELSE m_args.name

\* checkStaticPortsConfigured looking the keys up in the wrong collection
missingVarsOfPattern(pattern, static_ports) ==
  SelectSeq(pattern.m_config_vars,
            LAMBDA cvar : cvar \notin Range(pattern.m_config_vars))

\* the configuration items checkStaticPortsConfigured finds missing
missingVars(pattern, static_ports) ==
  SelectSeq(pattern.m_config_vars, LAMBDA cvar : cvar \notin DOMAIN static_ports)

\* the items its last loop reports before the process exits
reportMissing(missing) ==
  IF missing = <<>> THEN <<>> ELSE <<Head(missing)>>

checkStaticPortsConfigured ==
  /\ pc = "create_firewalld_service"
  /\ m_static_ports' = getStaticPortConfig(m_pattern, disk)
  /\ LET missing == missingVars(m_pattern, m_static_ports') IN
     IF missing = <<>>
       THEN pc' = "fw_state" /\ UNCHANGED <<status, stderr>>
       ELSE stderr' = reportMissing(missing) /\ Exit(1)
  /\ UNCHANGED <<m_args, m_rpc_services, m_port_config, m_used_ports, input,
                 lines, query, suggested, disk, disk0, rpcinfo, fwServices, calls,
                 stdout, runs, chosen>>

Call(args, res) == [args |-> args, res |-> res]

\* callFirewallCmd("--state", permanent = False)
fwState ==
  /\ pc = "fw_state"
  /\ \E res \in {0, 252} :
       /\ calls' = Append(calls, Call(<<"--state">>, res))
       /\ IF res # 0 THEN Exit(1) ELSE pc' = "fw_info" /\ UNCHANGED status
  /\ UNCHANGED <<m_args, m_rpc_services, m_port_config, m_used_ports,
                 m_static_ports, input, lines, query, suggested, disk, disk0, rpcinfo,
                 fwServices, stdout, stderr, runs, chosen>>

\* callFirewallCmd(["--info-service", name])
fwInfoService ==
  /\ pc = "fw_info"
  /\ LET res == IF serviceName \in DOMAIN fwServices THEN 0 ELSE 101 IN
     /\ calls' = Append(calls, Call(<<"--info-service">>, res))
     /\ IF res = 0 THEN Exit(1) ELSE pc' = "fw_new" /\ UNCHANGED status
  /\ UNCHANGED <<m_args, m_rpc_services, m_port_config, m_used_ports,
                 m_static_ports, input, lines, query, suggested, disk, disk0, rpcinfo,
                 fwServices, stdout, stderr, runs, chosen>>

\* checkCallFirewallCmd(["--new-service", name]); firewall-cmd can fail
fwNewService ==
  /\ pc = "fw_new"
  /\ \E res \in {0, 1} :
       /\ calls' = Append(calls, Call(<<"--new-service">>, res))
       /\ IF res # 0 THEN Exit(3) /\ UNCHANGED fwServices
          ELSE /\ pc' = "fw_add"
               /\ fwServices' = [n \in DOMAIN fwServices \cup {serviceName} |->
                                   IF n = serviceName THEN {} ELSE fwServices[n]]
               /\ UNCHANGED status
  /\ UNCHANGED <<m_args, m_rpc_services, m_port_config, m_used_ports,
                 m_static_ports, input, lines, query, suggested, disk, disk0, rpcinfo,
                 stdout, stderr, runs, chosen>>

\* the port specs that follow an --add-port in port_args
portArgs(static_ports, pattern) ==
  UNION {{portSpec(static_ports[k], W("udp")), portSpec(static_ports[k], W("tcp"))} :
           k \in DOMAIN static_ports}
    \cup Range(pattern.m_static_ports)

\* checkCallFirewallCmd(["--service", name] + port_args) and the final report
fwAddPorts ==
  /\ pc = "fw_add"
  /\ \E res \in {0, 1} :
       /\ calls' = Append(calls, Call(<<"--service", "--add-port">>, res))
       /\ IF res # 0 THEN Exit(3) /\ UNCHANGED fwServices
          ELSE /\ pc' = "done"
               /\ fwServices' =
                    [fwServices EXCEPT ![serviceName] =
                       @ \cup portArgs(m_static_ports, m_pattern)]
               /\ UNCHANGED status
  /\ UNCHANGED <<m_args, m_rpc_services, m_port_config, m_used_ports,
                 m_static_ports, input, lines, query, suggested, disk, disk0, rpcinfo,
                 stdout, stderr, runs, chosen>>

(***************************************************************************)
(* --print-services, --print-pattern, --list-patterns                      *)
(***************************************************************************)

\* printServices, called with the -s arguments or by printPatternServices
printServicesCmd ==
  /\ pc \in {"print_services", "print_pattern"}
  /\ stdout' \in printServices(m_rpc_services,
                               IF pc = "print_services"
                                 THEN Range(m_args.services)
                                 ELSE m_pattern.m_rpcbind_services)
  /\ pc' = "done"
  /\ UNCHANGED <<status, m_args, m_rpc_services, m_port_config, m_used_ports,
                 m_static_ports, input, lines, query, suggested, disk, disk0, rpcinfo,
                 fwServices, calls, stderr, runs, chosen>>

\* the data rows of the table of listPattern
patternRows(pattern, static_ports) ==
  [i \in 1..Len(pattern.m_config_vars) |->
     LET var == pattern.m_config_vars[i] IN
     <<var, getPortSyntax(var) \o <<"{port}">>, cfg_service_names[var],
       IF var \in DOMAIN static_ports /\ static_ports[var] # 0
         THEN str(static_ports[var]) ELSE <<"unconfigured">> >>]

listPattern ==
  /\ pc = "list_patterns"
  /\ m_static_ports' = getStaticPortConfig(m_pattern, disk)
  /\ stdout' = patternRows(m_pattern, m_static_ports')
  /\ pc' = "done"
  /\ UNCHANGED <<status, m_args, m_rpc_services, m_port_config, m_used_ports,
                 input, lines, query, suggested, disk, disk0, rpcinfo, fwServices,
                 calls, stderr, runs, chosen>>

(***************************************************************************)
(* The program is run again                                                *)
(***************************************************************************)

\* a new process with the same options, after a static configuration that
\* succeeded; the file, the registrations and the firewall are as it left them
runAgain ==
  /\ pc = "done"
  /\ m_args.command = "static_config"
  /\ Len(runs) + 1 < MaxRuns
  /\ runs' = Append(runs, m_args.command)
  /\ pc' = "run"
  /\ status' = 0
  /\ m_args' = [m_args EXCEPT !.command = "none", !.services = <<>>,
                              !.name = NoArgValue]
  /\ m_rpc_services' = EmptyDict
  /\ m_port_config' = EmptyDict
  /\ m_used_ports' = {}
  /\ m_static_ports' = EmptyDict
  /\ input' = <<>>
  /\ lines' = <<>>
  /\ query' = NoQuery
  /\ suggested' = NoSuggestion
  /\ calls' = <<>>
  /\ stdout' = <<>>
  /\ stderr' = <<>>
  /\ disk0' = disk
  /\ UNCHANGED <<disk, rpcinfo, fwServices, chosen>>

Next ==
  \/ run
  \/ configureStatic
  \/ processCfgItemForChange
  \/ queryPort
  \/ writeCfg
  \/ checkStaticPortsConfigured
  \/ fwState
  \/ fwInfoService
  \/ fwNewService
  \/ fwAddPorts
  \/ printServicesCmd
  \/ listPattern
  \/ runAgain

Spec == Init /\ [][Next]_vars

(***************************************************************************)
(* Properties                                                              *)
(***************************************************************************)

StaticRunDone ==
  pc = "done" /\ m_args.command = "static_config" /\ m_args.non_interactive

\* the line, read as a shell assignment, sets a variable of the pattern
assignsOwnedKey(pattern, line) ==
  LET text == strip(line, Whitespace \cup {"\r"}) IN
  /\ Len(text) >= 2
  /\ <<text[1]>> \in Range(pattern.m_config_vars)
  /\ text[2] = "="

\* the records of rpcinfo for one rpc service
liveRows(service) ==
  IF ~rpcinfo.reachable THEN <<>>
  ELSE SelectSeq(rpcinfo.rows, LAMBDA row : row.service = service)

livePorts(service, proto) ==
  {liveRows(service)[i].port :
     i \in {j \in 1..Len(liveRows(service)) : liveRows(service)[j].proto = proto}}

\* C1: when a non-interactive static configuration has written the file, the
\* file has as many lines as it had when the run started, and every line
\* that does not assign a variable of the active pattern is, byte for byte,
\* the line that was at its position.
C1_StaticConfigKeepsLines ==
  StaticRunDone =>
    LET before == readlines(disk0.content)
        after == readlines(disk.content)
    IN /\ Len(after) = Len(before)
       /\ \A i \in 1..Len(before) :
            ~assignsOwnedKey(m_pattern, before[i]) => after[i] = before[i]

\* C2: the port getPortSuggestion returned for a key is the override of the
\* key's rpc service when there is one; else the key's old static port when
\* it is present and not zero; else a port rpcinfo lists for the service,
\* under tcp for a TCP key of a service with a tcp record, under udp for a
\* UDP key of a service with a udp record, otherwise under the protocol of
\* the service's first record; else a port in [49152, 65535].
C2_SuggestionPriority ==
  suggested.key # <<>> =>
    LET service == cfg_service_names[suggested.key]
        rows == liveRows(service)
    IN IF service \in DOMAIN m_port_config
         THEN suggested.port = m_port_config[service]
       ELSE IF suggested.old_port \notin {None, 0}
         THEN suggested.port = suggested.old_port
       ELSE IF rows # <<>>
         THEN suggested.port \in
                livePorts(service,
                          IF ContainsTCP(suggested.key)
                               /\ livePorts(service, W("tcp")) # {}
                            THEN W("tcp")
                          ELSE IF ContainsUDP(suggested.key)
                               /\ livePorts(service, W("udp")) # {}
                            THEN W("udp")
                          ELSE rows[1].proto)
       ELSE suggested.port \in RandMin..RandMax

\* a UDP key without a usable old port got the udp port of a service whose
\* first record is a tcp one
C2_Witness ==
  /\ suggested.key = W("LOCKD_UDPPORT")
  /\ suggested.old_port = 0
  /\ liveRows(W("nlockmgr")) # <<>>
  /\ liveRows(W("nlockmgr"))[1].proto = W("tcp")
  /\ suggested.port \in livePorts(W("nlockmgr"), W("udp"))

\* getPortSuggestion came to its random choice: no override, no old port,
\* the service not registered
RandomFallback ==
  /\ suggested.key # <<>>
  /\ cfg_service_names[suggested.key] \notin DOMAIN m_port_config
  /\ suggested.old_port \in {None, 0}
  /\ liveRows(cfg_service_names[suggested.key]) = <<>>

\* C3: a port from the random choice of getPortSuggestion is in
\* [49152, 65535], was not in m_used_ports when it was chosen and is not a
\* port rpcinfo lists for any service under any protocol.
C3_RandomPortUnused ==
  RandomFallback =>
    /\ suggested.port \in RandMin..RandMax
    /\ suggested.port \notin suggested.used_ports
    /\ suggested.port \notin {rpcinfo.rows[i].port : i \in 1..Len(rpcinfo.rows)}

\* C4: every port accepted for a key of the pattern, and with that added to
\* m_used_ports and written into the key's line, is in [1, 65535].
C4_AcceptedPortInRange ==
  \A port \in m_used_ports : port \in PortMin..PortMax

\* C5: a non-interactive static configuration that follows another one, with
\* the same options and the same registrations, leaves the file as the
\* first one wrote it, and so every key with the port of the first run.
C5_SecondRunSameFile ==
  (StaticRunDone /\ runs # <<>>) => disk = disk0

\* the second run is done and its last key had its port from the random
\* choice of the first run
C5_Witness ==
  /\ StaticRunDone
  /\ runs # <<>>
  /\ suggested.key # <<>>
  /\ suggested.old_port \in RandomDraws
  /\ cfg_service_names[suggested.key] \notin DOMAIN m_port_config
  /\ liveRows(cfg_service_names[suggested.key]) = <<>>

ExportRun == m_args.command = "create_firewalld_service"

Issued(args) == \E i \in 1..Len(calls) : calls[i].args = args

\* every variable of the active pattern has a static port
AllStaticPorts ==
  \A cvar \in Range(m_pattern.m_config_vars) : cvar \in DOMAIN m_static_ports

\* C6: firewall-cmd is called only when every key of the pattern has a static
\* port; --new-service and --add-port are called only after --state returned
\* 0 and then --info-service did not find the service, in this order; a run
\* that ends before --new-service ends with a non-zero status, and without a
\* successful --new-service the services of the firewall are untouched.
C6_ExportChecksFirst ==
  /\ calls # <<>> => ExportRun /\ AllStaticPorts
  /\ (Issued(<<"--new-service">>) \/ Issued(<<"--service", "--add-port">>)) =>
       /\ Len(calls) >= 3
       /\ calls[1] = Call(<<"--state">>, 0)
       /\ calls[2].args = <<"--info-service">> /\ calls[2].res # 0
       /\ calls[3].args = <<"--new-service">>
       /\ serviceName \notin DOMAIN InitialFirewall
  /\ Issued(<<"--service", "--add-port">>) =>
       Len(calls) = 4 /\ calls[3].res = 0 /\ calls[4].args[1] = "--service"
  /\ (ExportRun /\ pc = "exit") => status # 0
  /\ (ExportRun /\ pc = "done") => Issued(<<"--service", "--add-port">>)
  /\ ~(\E i \in 1..Len(calls) :
         calls[i].args = <<"--new-service">> /\ calls[i].res = 0)
       => fwServices = InitialFirewall

\* an export went through all three checks and created the service
C6_Witness ==
  /\ ExportRun
  /\ pc = "done"
  /\ Len(calls) = 4
  /\ fwServices # InitialFirewall

\* the implied ports of a pattern, as port/protocol
ImpliedPorts(label) ==
  IF label \in {"nfs-server", "nfs-client"}
    THEN {<<"2", "0", "4", "9", "/", "tcp">>, <<"2", "0", "4", "9", "/", "udp">>}
    ELSE {}

\* C7: after a successful export the new service has exactly the ports
\* p/tcp and p/udp for the static ports p of the keys of the active pattern,
\* and the implied ports of the pattern.
C7_ExportedPorts ==
  (ExportRun /\ pc = "done") =>
    fwServices[serviceName] =
      {str(m_static_ports[k]) \o <<"/", proto>> :
         k \in DOMAIN m_static_ports \cap Range(m_pattern.m_config_vars),
         proto \in {"tcp", "udp"}}
        \cup ImpliedPorts(m_args.pattern)

\* nfs-client was exported from a file that also sets MOUNTD_PORT and
\* RQUOTAD_PORT
C7_Witness ==
  /\ ExportRun
  /\ pc = "done"
  /\ m_args.pattern = "nfs-client"
  /\ disk.content = FullNfs

PrintRun == m_args.command \in {"print_services", "print_pattern"}

\* C8: printServices prints one token port/protocol for every (protocol,
\* port) pair rpcinfo lists for a requested service, no token twice, none of
\* another service, in ascending order of the port; for mountd and rquotad
\* that is 875/udp 20048/tcp.
C8_PrintedPorts ==
  (PrintRun /\ pc = "done") =>
    LET requested == IF m_args.command = "print_services"
                       THEN Range(m_args.services)
                       ELSE m_pattern.m_rpcbind_services
        rows == IF rpcinfo.reachable THEN rpcinfo.rows ELSE <<>>
        bound == {str(rows[i].port) \o <<"/">> \o rows[i].proto :
                    i \in {j \in 1..Len(rows) : rows[j].service \in requested}}
        portOf(token) == digitsValue(split(token, "/")[1])
    IN /\ Range(stdout) = bound
       /\ Len(stdout) = Cardinality(bound)
       /\ \A i, j \in 1..Len(stdout) :
            i < j => portOf(stdout[i]) <= portOf(stdout[j])
       /\ (rpcinfo.reachable /\ m_args.services = <<W("mountd"), W("rquotad")>>)
            => stdout = << <<"8", "7", "5", "/", "udp">>,
                           <<"2", "0", "0", "4", "8", "/", "tcp">> >>

\* ports of nfs, nfs_acl and nlockmgr were printed: five records, four tokens
C8_Witness ==
  /\ m_args.command = "print_services"
  /\ pc = "done"
  /\ m_args.services = <<W("nfs"), W("nfs_acl"), W("nlockmgr")>>
  /\ Len(stdout) = 4

KnownRpcServices ==
  {W("nlockmgr"), W("mountd"), W("rquotad"), W("status"), W("ypbind"),
   W("yppasswd"), W("ypserv"), W("fypxfrd")}

\* an item <rpcservice>=<port> with one "=", a known service and a port in
\* [1, 65535]
ValidItem(item) ==
  /\ Cardinality({i \in 1..Len(item) : item[i] = "="}) = 1
  /\ LET i == CHOOSE j \in 1..Len(item) : item[j] = "=" IN
     /\ SubSeq(item, 1, i - 1) \in KnownRpcServices
     /\ isdigit(SubSeq(item, i + 1, Len(item)))
     /\ digitsValue(SubSeq(item, i + 1, Len(item))) \in 1..65535

ItemService(item) ==
  SubSeq(item, 1, (CHOOSE j \in 1..Len(item) : item[j] = "=") - 1)

ItemPort(item) ==
  digitsValue(SubSeq(item, (CHOOSE j \in 1..Len(item) : item[j] = "=") + 1,
                     Len(item)))

\* C9: when run() has gone through parsePortConfig, a list of valid items
\* has become the overrides {rpcservice: port}; a list with an invalid item
\* has ended the process with a non-zero status, with the file, the firewall
\* and m_used_ports untouched, and an ended process changes neither file nor
\* firewall.
C9_PortConfigParsed ==
  [][ /\ pc = "run" =>
           LET items == splitws(m_args.port_config) IN
           IF \A k \in 1..Len(items) : ValidItem(items[k])
             THEN /\ DOMAIN m_port_config' =
                       {ItemService(items[k]) : k \in 1..Len(items)}
                  /\ \A k \in 1..Len(items) :
                       (\A l \in (k + 1)..Len(items) :
                          ItemService(items[l]) # ItemService(items[k]))
                         => m_port_config'[ItemService(items[k])]
                              = ItemPort(items[k])
                  /\ pc' = "exit" => m_args'.command = "none"
             ELSE /\ pc' = "exit"
                  /\ status' # 0
                  /\ disk' = disk
                  /\ fwServices' = fwServices
                  /\ m_used_ports' = {}
      /\ pc = "exit" => disk' = disk /\ fwServices' = fwServices
    ]_vars

\* "mountd=4711 status=815" became {mountd: 4711, status: 815}
C9_Witness ==
  /\ pc \notin {"run", "exit"}
  /\ m_args.port_config =
       <<"mountd", "=", "4", "7", "1", "1", " ", "status", "=", "8", "1", "5">>
  /\ DOMAIN m_port_config = {W("mountd"), W("status")}
  /\ m_port_config[W("mountd")] = 4711
  /\ m_port_config[W("status")] = 815

\* the lines of the file as getStaticPortConfig reads them
cfgLines == readlines(universalNewlines(disk.content))

\* the space-separated tokens of a value, its surrounding quotes removed
ValueTokens(line) == splitws(strip(cfgItem(line).val, {"\""}))

HasNumber(line) ==
  \E j \in 1..Len(ValueTokens(line)) : isdigit(ValueTokens(line)[j])

\* the first all-digit token of the value of a line
FirstNumber(line) ==
  LET tokens == ValueTokens(line)
      j == CHOOSE n \in 1..Len(tokens) :
             isdigit(tokens[n]) /\ \A m \in 1..(n - 1) : ~isdigit(tokens[m])
  IN digitsValue(tokens[j])

\* the lines of the file that hand the key to the item handler with a number
NumberLines(key) ==
  {i \in 1..Len(cfgLines) :
     /\ cfgItem(cfgLines[i]).item
     /\ cfgItem(cfgLines[i]).key = key
     /\ HasNumber(cfgLines[i])}

Max(S) == CHOOSE n \in S : \A m \in S : m <= n

ParseRun == pc \in {"list_patterns", "create_firewalld_service"}

\* C10 as stated: getStaticPortConfig leaves the file alone and records, for
\* the keys of the active pattern and no others, the first all-digit token
\* of the key's value, and nothing for a key whose value has no such token.
C10_ParseRecordsFirstNumber ==
  [][ ParseRun =>
        /\ disk' = disk
        /\ DOMAIN m_static_ports' =
             {k \in Range(m_pattern.m_config_vars) : NumberLines(k) # {}}
        /\ \A k \in DOMAIN m_static_ports' :
             m_static_ports'[k] = FirstNumber(cfgLines[Max(NumberLines(k))])
    ]_vars

\* the lines among NumberLines whose first number is not zero
PortLines(key) ==
  {i \in NumberLines(key) : FirstNumber(cfgLines[i]) # 0}

\* C10 as amended: getStaticPortConfig leaves the file alone and records, for
\* the keys of the active pattern and no others, the first all-digit token
\* of the key's value when that number is not zero, and nothing for a key
\* whose value has no such token or has 0 as its first one.
C10_ParseRecordsFirstPort ==
  [][ ParseRun =>
        /\ disk' = disk
        /\ DOMAIN m_static_ports' =
             {k \in Range(m_pattern.m_config_vars) : PortLines(k) # {}}
        /\ \A k \in DOMAIN m_static_ports' :
             m_static_ports'[k] = FirstNumber(cfgLines[Max(PortLines(k))])
    ]_vars

\* a file with LOCKD_UDPPORT="0" and LOCKD_TCPPORT=713 was parsed: 713 is
\* recorded, the 0 is not
C10_Witness ==
  /\ m_args.command = "list_patterns"
  /\ pc = "done"
  /\ \E i \in 1..Len(cfgLines) :
       /\ cfgItem(cfgLines[i]).item
       /\ cfgItem(cfgLines[i]).key = W("LOCKD_UDPPORT")
       /\ FirstNumber(cfgLines[i]) = 0
  /\ DOMAIN m_static_ports = {W("LOCKD_TCPPORT")}
  /\ m_static_ports[W("LOCKD_TCPPORT")] = 713

\* the positions of the static-configuration workflow
StaticPcs == {"static_config", "cfg_line", "queryPort"}

StaticRun == pc \in StaticPcs

\* C11: in the static-configuration workflow the file changes only in the
\* step taken when every line read has its reprocessed line in memory, and
\* a run that ends before that step (the file does not exist, or the input
\* ends at a prompt) ends with a non-zero status and the file as it was
\* when the run started, whatever ports were accepted before.
C11_WriteOnlyAfterAllLines ==
  [][ StaticRun =>
        /\ disk' # disk =>
              /\ pc = "cfg_line"
              /\ Len(lines) = Len(input)
              /\ input = readlines(universalNewlines(disk.content))
              /\ pc' = "done"
        /\ pc' = "exit" =>
              /\ status' # 0
              /\ disk' = disk0
              /\ disk'.exists => Len(lines') < Len(input')
    ]_vars

\* the input ended at the prompt for a second key, after the port of a first
\* key had been accepted: the run failed and the file is as it was
C11_Witness ==
  /\ m_args.command = "static_config"
  /\ pc = "exit"
  /\ status # 0
  /\ disk.exists
  /\ m_used_ports # {}
  /\ lines # <<>>
  /\ Len(lines) < Len(input)
  /\ disk = disk0

\* the keys of the active pattern that have no static port after the step
MissingKeys ==
  {cvar \in Range(m_pattern.m_config_vars) : cvar \notin DOMAIN m_static_ports'}

\* C12 as stated: when the export finds several keys of the active pattern
\* without a static port, the run ends with a non-zero status and the report
\* on stderr lists every one of these keys.
C12_ReportsEveryMissingKey ==
  [][ (pc = "create_firewalld_service" /\ Cardinality(MissingKeys) > 1) =>
        /\ pc' = "exit"
        /\ status' # 0
        /\ Range(stderr') = MissingKeys
    ]_vars

\* a line that is not blank, not a comment and has a "="
IsAssignment(line) ==
  LET stripped == strip(line, Whitespace) IN
  /\ stripped # <<>>
  /\ Head(stripped) # "#"
  /\ \E i \in 1..Len(stripped) : stripped[i] = "="

\* the position of the first "=" of a stripped assignment
FirstEq(stripped) ==
  CHOOSE i \in 1..Len(stripped) :
    stripped[i] = "=" /\ \A j \in 1..(i - 1) : stripped[j] # "="

\* key and value of an assignment, split on its first "="
KeyOf(line) ==
  LET stripped == strip(line, Whitespace) IN
  SubSeq(stripped, 1, FirstEq(stripped) - 1)

ValOf(line) ==
  LET stripped == strip(line, Whitespace) IN
  SubSeq(stripped, FirstEq(stripped) + 1, Len(stripped))

OwnedAssignment(line) ==
  IsAssignment(line) /\ KeyOf(line) \in Range(m_pattern.m_config_vars)

\* C13 as stated: every line that is not blank, not a comment and has a "="
\* is split on its first "=" and handed to the handler. In change mode the
\* assignment of an owned key gets a port suggested from its value and is
\* rewritten, and every other line is kept; in parse mode the port found in
\* the value of the last assignment of an owned key is recorded.
C13_AssignmentsReachHandler ==
  [][ /\ (pc = "cfg_line" /\ Len(lines) < Len(input)) =>
           IF OwnedAssignment(curLine)
             THEN /\ suggested'.key = KeyOf(curLine)
                  /\ suggested'.old_port = scanPort(ValOf(curLine))
                  /\ m_args.non_interactive =>
                       lines' = Append(lines, formatCfgItem(KeyOf(curLine),
                                                            suggested'.port))
             ELSE lines' = Append(lines, curLine)
      /\ ParseRun =>
           \A i \in 1..Len(cfgLines) :
             (/\ OwnedAssignment(cfgLines[i])
              /\ scanPort(ValOf(cfgLines[i])) \notin {None, 0}
              /\ \A j \in (i + 1)..Len(cfgLines) :
                    ~(OwnedAssignment(cfgLines[j])
                      /\ KeyOf(cfgLines[j]) = KeyOf(cfgLines[i])))
               => /\ KeyOf(cfgLines[i]) \in DOMAIN m_static_ports'
                  /\ m_static_ports'[KeyOf(cfgLines[i])]
                       = scanPort(ValOf(cfgLines[i]))
    ]_vars

\* ports of one to five digits
PortSamples == {PortMin, 10, 713, 4711, RandMin, PortMax}

\* the line written for the key with the port is read back as an assignment
\* of the key, and the parse-mode handler records exactly the port for it
ReadBack(key, port) ==
  LET it == cfgItem(formatCfgItem(key, port)) IN
  /\ it.item
  /\ it.key = key
  /\ scanPort(it.val) = port
  /\ processCfgItemForParsing(m_pattern, EmptyDict, it.key, it.val)
       = [k \in {key} |-> port]

\* every key of the active pattern reads back every sampled port, and the
\* line the static configuration has just rewritten reads back the port
\* chosen for it
LinesReadBack ==
  /\ pc = "run" =>
       \A key \in Range(m_pattern.m_config_vars), port \in PortSamples :
         ReadBack(key, port)
  /\ (pc = "cfg_line" /\ lines # <<>> /\ OwnedAssignment(input[Len(lines)])
        /\ cfgItem(input[Len(lines)]).item) =>
       /\ chosen # <<>>
       /\ chosen[Len(chosen)].key = cfgItem(input[Len(lines)]).key
       /\ lines[Len(lines)] = formatCfgItem(chosen[Len(chosen)].key,
                                            chosen[Len(chosen)].port)
       /\ ReadBack(chosen[Len(chosen)].key, chosen[Len(chosen)].port)

\* a run that parsed the file after a static configuration had written it
ParsedAfterStatic ==
  /\ runs # <<>>
  /\ m_args.command \in {"list_patterns", "create_firewalld_service"}
  /\ pc \notin {"run", "list_patterns", "create_firewalld_service"}

\* C14 as stated: the line generated for a key and a port reads back as that
\* key and that port, and after a static configuration every rewritten
\* assignment has its key in StaticPortConfig with the port chosen for it.
C14_RoundTripEveryLine ==
  /\ LinesReadBack
  /\ ParsedAfterStatic =>
       \A i \in 1..Len(chosen) :
         /\ chosen[i].key \in DOMAIN m_static_ports
         /\ m_static_ports[chosen[i].key] = chosen[i].port

\* the rewritten assignments that are the last one of their key
LastOfKey ==
  {i \in 1..Len(chosen) :
     \A j \in (i + 1)..Len(chosen) : chosen[j].key # chosen[i].key}

\* C14 as amended: the line generated for a key and a port reads back as
\* that key and that port, and after a static configuration every key with
\* a rewritten assignment is in StaticPortConfig with the port chosen for
\* the last rewritten assignment of the key.
C14_RoundTripLastLine ==
  /\ LinesReadBack
  /\ ParsedAfterStatic =>
       /\ DOMAIN m_static_ports \cap Range(m_pattern.m_config_vars)
            = {chosen[i].key : i \in 1..Len(chosen)}
       /\ \A i \in LastOfKey :
            m_static_ports[chosen[i].key] = chosen[i].port

\* YPPASSWDD_ARGS was assigned twice and given two ports; the file written
\* was parsed by a later run, which found the second port
C14_Witness ==
  /\ ParsedAfterStatic
  /\ pc = "done"
  /\ Len(chosen) = 2
  /\ chosen[1].key = W("YPPASSWDD_ARGS")
  /\ chosen[2].key = W("YPPASSWDD_ARGS")
  /\ chosen[1].port # chosen[2].port
  /\ m_static_ports[W("YPPASSWDD_ARGS")] = chosen[2].port

====
